---- MODULE Spec2Model ----
(***************************************************************************)
(* Pinned Memory Gateway: csrc/mem_alloc.cpp.                              *)
(*                                                                         *)
(* alloc_pinned_ptr(size, flags) and free_pinned_ptr(ptr) are modelled     *)
(* line by line, one frame per caller, on top of a model of the two        *)
(* runtime entry points they call (cudaHostAlloc, cudaFreeHost) and of     *)
(* the pinned-memory pool those entry points own.                          *)
(***************************************************************************)
EXTENDS Integers, Sequences, FiniteSets

\* ------------------------------------------------------------------ bounds
\* Addresses are 0..MaxAddr (0 is the null pointer); the pool holds at most
\* Capacity pinned bytes; callers ask for 0..MaxSize bytes.
MaxAddr == 3
Capacity == 2
MaxSize == 2

\* The threads that call into the gateway.
Callers == {"t1", "t2"}

\* ------------------------------------------------------- runtime constants
cudaSuccess == 0
cudaErrorInvalidValue == 1
cudaErrorMemoryAllocation == 2
cudaErrorNoDevice == 100
\* cudaHostAllocPortable | cudaHostAllocMapped | cudaHostAllocWriteCombined
cudaHostAllocFlagMask == 7

Addrs == 0..MaxAddr
Sizes == 0..MaxSize
\* One valid flags word (cudaHostAllocDefault) and one with an unknown bit.
FlagWords == {0, cudaHostAllocFlagMask + 1}

\* ---------------------------------------------------------------- pointers
\* A void* is a typed value; a uintptr_t is a bare integer.
nullptr == [addr |-> 0]

\* A cast through a narrower integer, which drops the high bits.
PtrToUintTruncated(p) == p.addr % 2
\* reinterpret_cast<uintptr_t>(void*), line 12
PtrToUint(p) == p.addr

\* A cast that lands one past the address.
UintToPtrOffByOne(n) == [addr |-> (n + 1) % (MaxAddr + 1)]
\* reinterpret_cast<void*>(uintptr_t), line 16
UintToPtr(n) == [addr |-> n]

\* ------------------------------------------------------------------ strings
DigitChars == <<"0", "1", "2", "3", "4", "5", "6", "7", "8", "9">>

RECURSIVE Digits(_)
Digits(n) ==
    IF n < 10 THEN <<DigitChars[n + 1]>>
    ELSE Digits(n \div 10) \o <<DigitChars[(n % 10) + 1]>>

\* std::to_string(err): the decimal text of the status
to_string(n) == IF n < 0 THEN <<"-">> \o Digits(0 - n) ELSE Digits(n)

AllocPrefix == "cudaHostAlloc failed: "
FreePrefix == "cudaFreeHost failed: "

\* std::runtime_error(prefix + std::to_string(err)), lines 10 and 18
runtime_error(prefix, err) == <<prefix>> \o to_string(err)

VARIABLES
    pool,       \* the runtime's live pinned regions: base address -> length
    initStatus, \* what initialising the runtime yields on this machine
    pc,         \* per caller: where it is in the gateway
    frame,      \* per caller: parameters and locals of the running call
    asked,      \* per caller: the call it last made, with its arguments
    outcome,    \* per caller: what that call gave back, once it has finished
    held,       \* per caller: handles received and not yet passed to release
    rtlog,      \* per caller: the runtime calls made by its current/last call
    watched,    \* one handle, arbitrary but fixed, whose history is followed
    life        \* the followed handle: never / allocated / released

vars == <<pool, initStatus, pc, frame, asked, outcome, held, rtlog, watched, life>>

\* ------------------------------------------------------------- the runtime
Live == DOMAIN pool

RECURSIVE SumLen(_)
SumLen(S) ==
    IF S = {} THEN 0
    ELSE LET b == CHOOSE x \in S : TRUE IN pool[b] + SumLen(S \ {b})

Used == SumLen(Live)
Available == Capacity - Used

Span(b, n) == b..(b + n - 1)
Occupied == UNION {Span(b, pool[b]) : b \in Live}

\* Non-null bases where n contiguous bytes are free and no region starts.
FreeBases(n) ==
    {b \in 1..MaxAddr :
        /\ b + n - 1 <= MaxAddr
        /\ b \notin Live
        /\ Span(b, n) \cap Occupied = {}
        /\ b \notin Occupied}

Extend(b, n) == [x \in Live \cup {b} |-> IF x = b THEN n ELSE pool[x]]
Remove(b) == [x \in Live \ {b} |-> pool[x]]

\* cudaHostAlloc(&ptr, size, flags): the replies the runtime can give.
\* A reply is the status, the pointer stored through &ptr (the pointer is
\* left as it was on failure) and the pool afterwards.
cudaHostAlloc(ptr, size, flags) ==
    IF initStatus # cudaSuccess
    THEN {[status |-> initStatus, ptr |-> ptr, pool |-> pool]}
    ELSE IF flags \notin 0..cudaHostAllocFlagMask
    THEN {[status |-> cudaErrorInvalidValue, ptr |-> ptr, pool |-> pool]}
    ELSE IF size = 0
    THEN \* runtime-defined: rejected, or accepted with no region behind
         \* the pointer (a unique non-null pointer would behave as a region
         \* of a positive size does)
         {[status |-> cudaErrorInvalidValue, ptr |-> ptr, pool |-> pool],
          [status |-> cudaSuccess, ptr |-> nullptr, pool |-> pool]}
    ELSE \* the pool is shared system-wide: the request may be refused
         \* even when this process's own regions leave room
         {[status |-> cudaErrorMemoryAllocation, ptr |-> ptr, pool |-> pool]}
         \cup {[status |-> cudaSuccess, ptr |-> [addr |-> b],
                pool |-> Extend(b, size)] :
                  b \in {x \in FreeBases(size) : size <= Available}}

\* cudaFreeHost(p): the replies the runtime can give.
cudaFreeHost(p) ==
    IF initStatus # cudaSuccess
    THEN {[status |-> initStatus, pool |-> pool]}
    ELSE IF p = nullptr
    THEN \* platform-defined: a no-op, or rejected
         {[status |-> cudaSuccess, pool |-> pool],
          [status |-> cudaErrorInvalidValue, pool |-> pool]}
    ELSE IF p.addr \in Live
    THEN {[status |-> cudaSuccess, pool |-> Remove(p.addr)]}
    ELSE {[status |-> cudaErrorInvalidValue, pool |-> pool]}

\* ------------------------------------------------------------------- Init
Idle == [fn |-> "none"]
NoOutcome == [op |-> "none", kind |-> "none"]

NoHandle == 0 - 1

\* Nothing is live, nobody is inside the gateway.
Fresh ==
    /\ pool = [x \in {} |-> 0]
    /\ initStatus \in {cudaSuccess, cudaErrorNoDevice}
    /\ pc = [c \in Callers |-> "idle"]
    /\ frame = [c \in Callers |-> Idle]
    /\ asked = [c \in Callers |-> Idle]
    /\ outcome = [c \in Callers |-> NoOutcome]
    /\ held = [c \in Callers |-> {}]
    /\ rtlog = [c \in Callers |-> <<>>]
    /\ life = "never"

Init == Fresh /\ watched \in Addrs

\* ------------------------------------------------------- alloc_pinned_ptr
\* Lines 6-7: the call is entered, ptr starts as nullptr.
AllocEnter(c, size, flags) ==
    /\ pc[c] = "idle"
    /\ pc' = [pc EXCEPT ![c] = "alloc_8"]
    /\ frame' = [frame EXCEPT ![c] =
           [fn |-> "alloc_pinned_ptr", size |-> size, flags |-> flags,
            ptr |-> nullptr]]
    /\ asked' = [asked EXCEPT ![c] =
           [fn |-> "alloc_pinned_ptr", size |-> size, flags |-> flags]]
    /\ outcome' = [outcome EXCEPT ![c] = NoOutcome]
    /\ rtlog' = [rtlog EXCEPT ![c] = <<>>]
    /\ UNCHANGED <<pool, initStatus, held, watched, life>>

\* A gateway that asks the runtime again after a refusal.
AfterHostAllocRetrying(err) == IF err # cudaSuccess THEN "alloc_8" ELSE "alloc_9"
\* Where control goes after line 8: on to the check of line 9, always.
AfterHostAlloc(err) == "alloc_9"

\* Line 8: cudaError_t err = cudaHostAlloc(&ptr, size, flags);
AllocCall(c) ==
    /\ pc[c] = "alloc_8"
    /\ \E r \in cudaHostAlloc(frame[c].ptr, frame[c].size, frame[c].flags) :
        /\ frame' = [frame EXCEPT ![c] =
               [fn |-> "alloc_pinned_ptr", size |-> frame[c].size,
                flags |-> frame[c].flags, ptr |-> r.ptr, err |-> r.status]]
        /\ pool' = r.pool
        /\ rtlog' = [rtlog EXCEPT ![c] = Append(@,
               [fn |-> "cudaHostAlloc", size |-> frame[c].size,
                status |-> r.status, ptr |-> r.ptr,
                fits |-> (frame[c].size <= Available)])]
        /\ life' = IF r.status = cudaSuccess /\ r.ptr.addr = watched
                   THEN "allocated"
                   ELSE life
        /\ pc' = [pc EXCEPT ![c] = AfterHostAlloc(r.status)]
    /\ UNCHANGED <<initStatus, asked, outcome, held, watched>>

\* A gateway that tests the pointer instead of the status.
AllocResultNullCheck(ptr, err) ==
    IF ptr = nullptr
    THEN [op |-> "alloc", kind |-> "thrown",
          what |-> runtime_error(AllocPrefix, err)]
    ELSE [op |-> "alloc", kind |-> "returned", value |-> PtrToUint(ptr)]
\* A gateway that answers an exhausted pool with a handle, not an error.
AllocResultOomAsNull(ptr, err) ==
    IF err # cudaSuccess /\ err # cudaErrorMemoryAllocation
    THEN [op |-> "alloc", kind |-> "thrown",
          what |-> runtime_error(AllocPrefix, err)]
    ELSE [op |-> "alloc", kind |-> "returned", value |-> PtrToUint(ptr)]
\* Lines 9-12: throw on a non-success status, else return the pointer as
\* an integer.
AllocResult(ptr, err) ==
    IF err # cudaSuccess
    THEN [op |-> "alloc", kind |-> "thrown",
          what |-> runtime_error(AllocPrefix, err)]
    ELSE [op |-> "alloc", kind |-> "returned", value |-> PtrToUint(ptr)]

\* A gateway that frees the live regions when an allocation fails.
PoolAtAllocExitReclaiming(err) == IF err # cudaSuccess THEN [x \in {} |-> 0] ELSE pool
\* What the pool is when alloc_pinned_ptr leaves: the function touches it
\* only through the call of line 8.
PoolAtAllocExit(err) == pool

\* keeps: whether the caller books the handles it receives.
AllocFinish(c, keeps) ==
    /\ pc[c] = "alloc_9"
    /\ LET res == AllocResult(frame[c].ptr, frame[c].err) IN
        /\ outcome' = [outcome EXCEPT ![c] = res]
        /\ held' = IF keeps /\ res.kind = "returned"
                   THEN [held EXCEPT ![c] = @ \cup {res.value}]
                   ELSE held
    /\ pool' = PoolAtAllocExit(frame[c].err)
    /\ pc' = [pc EXCEPT ![c] = "idle"]
    /\ frame' = [frame EXCEPT ![c] = Idle]
    /\ UNCHANGED <<initStatus, asked, rtlog, watched, life>>

\* -------------------------------------------------------- free_pinned_ptr
\* Line 15: the call is entered with the handle the caller passes; the
\* caller gives the handle up.
FreeEnter(c, h) ==
    /\ pc[c] = "idle"
    /\ pc' = [pc EXCEPT ![c] = "free_16"]
    /\ frame' = [frame EXCEPT ![c] = [fn |-> "free_pinned_ptr", ptr |-> h]]
    /\ held' = [held EXCEPT ![c] = @ \ {h}]
    /\ asked' = [asked EXCEPT ![c] = [fn |-> "free_pinned_ptr", ptr |-> h]]
    /\ outcome' = [outcome EXCEPT ![c] = NoOutcome]
    /\ rtlog' = [rtlog EXCEPT ![c] = <<>>]
    /\ UNCHANGED <<pool, initStatus, watched, life>>

\* Line 16: cudaError_t err = cudaFreeHost(reinterpret_cast<void*>(ptr));
FreeCall(c) ==
    /\ pc[c] = "free_16"
    /\ LET p == UintToPtr(frame[c].ptr) IN
       \E r \in cudaFreeHost(p) :
        /\ frame' = [frame EXCEPT ![c] =
               [fn |-> "free_pinned_ptr", ptr |-> frame[c].ptr,
                err |-> r.status]]
        /\ pool' = r.pool
        /\ rtlog' = [rtlog EXCEPT ![c] = Append(@,
               [fn |-> "cudaFreeHost", ptr |-> p, status |-> r.status,
                was |-> IF p.addr = watched THEN life ELSE "unknown"])]
        /\ life' = IF /\ r.status = cudaSuccess
                      /\ p.addr = watched
                      /\ life = "allocated"
                   THEN "released"
                   ELSE life
    /\ pc' = [pc EXCEPT ![c] = "free_17"]
    /\ UNCHANGED <<initStatus, asked, outcome, held, watched>>

\* A gateway whose release error is worded as the allocation error.
FreeResultPastedPrefix(ptr, err) ==
    IF err # cudaSuccess
    THEN [op |-> "free", kind |-> "thrown",
          what |-> runtime_error(AllocPrefix, err)]
    ELSE [op |-> "free", kind |-> "returned"]
\* A gateway that ignores the status of the release.
FreeResultSwallowing(ptr, err) == [op |-> "free", kind |-> "returned"]
\* A gateway that rejects the handle 0 itself.
FreeResultNullGuard(ptr, err) ==
    IF err # cudaSuccess \/ ptr = 0
    THEN [op |-> "free", kind |-> "thrown",
          what |-> runtime_error(FreePrefix,
                     IF err # cudaSuccess THEN err ELSE cudaErrorInvalidValue)]
    ELSE [op |-> "free", kind |-> "returned"]
\* Lines 17-20: throw on a non-success status, else return.
FreeResult(ptr, err) ==
    IF err # cudaSuccess
    THEN [op |-> "free", kind |-> "thrown",
          what |-> runtime_error(FreePrefix, err)]
    ELSE [op |-> "free", kind |-> "returned"]

FreeFinish(c) ==
    /\ pc[c] = "free_17"
    /\ outcome' = [outcome EXCEPT ![c] = FreeResult(frame[c].ptr, frame[c].err)]
    /\ pc' = [pc EXCEPT ![c] = "idle"]
    /\ frame' = [frame EXCEPT ![c] = Idle]
    /\ UNCHANGED <<pool, initStatus, asked, held, rtlog, watched, life>>

\* ------------------------------------------------------- specifications
\* Callers that keep no books and may pass any integer to free_pinned_ptr.
Next ==
    \/ \E c \in Callers, size \in Sizes, flags \in FlagWords :
           AllocEnter(c, size, flags)
    \/ \E c \in Callers : AllocCall(c)
    \/ \E c \in Callers : AllocFinish(c, FALSE)
    \/ \E c \in Callers, h \in Addrs : FreeEnter(c, h)
    \/ \E c \in Callers : FreeCall(c)
    \/ \E c \in Callers : FreeFinish(c)

Spec == Init /\ [][Next]_vars

\* Callers that release only handles they hold, each exactly once.
NextOwned ==
    \/ \E c \in Callers, size \in Sizes, flags \in FlagWords :
           AllocEnter(c, size, flags)
    \/ \E c \in Callers : AllocCall(c)
    \/ \E c \in Callers : AllocFinish(c, TRUE)
    \/ \E c \in Callers : \E h \in held[c] : FreeEnter(c, h)
    \/ \E c \in Callers : FreeCall(c)
    \/ \E c \in Callers : FreeFinish(c)

\* Owners never release twice: no handle's history needs following.
InitOwned == Fresh /\ watched = NoHandle

SpecOwned == InitOwned /\ [][NextOwned]_vars

\* ------------------------------------------------------------------ types
TypeOK ==
    /\ Live \subseteq 1..MaxAddr
    /\ \A b \in Live : pool[b] \in Sizes
    /\ Used <= Capacity
    /\ \A c \in Callers :
        /\ pc[c] \in {"idle", "alloc_8", "alloc_9", "free_16", "free_17"}
        /\ held[c] \subseteq Addrs
        /\ Len(rtlog[c]) <= 1

\* ------------------------------------------------------ reading outcomes
\* The number a decimal text stands for (read independently of to_string).
DigitValue(ch) == CHOOSE d \in 0..9 : DigitChars[d + 1] = ch

RECURSIVE TextValue(_)
TextValue(t) ==
    IF Len(t) = 0 THEN 0
    ELSE 10 * TextValue(SubSeq(t, 1, Len(t) - 1)) + DigitValue(t[Len(t)])

IsDecimal(t) == Len(t) > 0 /\ \A i \in 1..Len(t) : \E d \in 0..9 : DigitChars[d + 1] = t[i]

Thrown(o) == o.kind = "thrown"
Returned(o) == o.kind = "returned"

\* The two kinds of error are told apart by what the message names.
ErrorKind(o) ==
    IF ~Thrown(o) THEN "none"
    ELSE IF Head(o.what) = AllocPrefix THEN "AllocationError"
    ELSE IF Head(o.what) = FreePrefix THEN "ReleaseError"
    ELSE "other"

\* The status the message of a thrown error carries.
CarriedStatus(o) == TextValue(Tail(o.what))

FinishedAlloc(c) == outcome[c].op = "alloc"
FinishedFree(c) == outcome[c].op = "free"

\* The runtime call a finished call's outcome stems from.
TheCall(c) == rtlog[c][Len(rtlog[c])]

\* ------------------------------------------------------------------ C1
\* C1: a finished Allocate has failed with AllocationError if and only if
\* its hostAlloc call reported a non-success status; the error then carries
\* that status as decimal text and no handle is returned; otherwise a handle
\* is returned and nothing is raised.
C1_AllocFailsIffRuntimeFails ==
    \A c \in Callers : FinishedAlloc(c) =>
        LET o == outcome[c]
            st == TheCall(c).status
        IN  /\ TheCall(c).fn = "cudaHostAlloc"
            /\ (ErrorKind(o) = "AllocationError") <=> (st # cudaSuccess)
            /\ st # cudaSuccess =>
                  /\ Thrown(o)
                  /\ IsDecimal(Tail(o.what))
                  /\ CarriedStatus(o) = st
                  /\ "value" \notin DOMAIN o
            /\ st = cudaSuccess =>
                  /\ Returned(o)
                  /\ "value" \in DOMAIN o
                  /\ "what" \notin DOMAIN o

\* An Allocate on a machine without a device has failed with the text "100".
C1_Witness ==
    \E c \in Callers :
        /\ FinishedAlloc(c)
        /\ TheCall(c).status = cudaErrorNoDevice
        /\ Thrown(outcome[c])
        /\ outcome[c].what = <<AllocPrefix, "1", "0", "0">>

\* ------------------------------------------------------------------ C2
\* C2: a finished Release has failed with ReleaseError if and only if its
\* hostFree call reported a non-success status; the error then carries that
\* status as decimal text; otherwise Release returns normally; a Release
\* failure is never an AllocationError.
C2_FreeFailsIffRuntimeFails ==
    \A c \in Callers : FinishedFree(c) =>
        LET o == outcome[c]
            st == TheCall(c).status
        IN  /\ TheCall(c).fn = "cudaFreeHost"
            /\ (ErrorKind(o) = "ReleaseError") <=> (st # cudaSuccess)
            /\ ErrorKind(o) # "AllocationError"
            /\ st # cudaSuccess =>
                  /\ Thrown(o)
                  /\ IsDecimal(Tail(o.what))
                  /\ CarriedStatus(o) = st
            /\ st = cudaSuccess => Returned(o) /\ "what" \notin DOMAIN o

\* A Release of a handle that names no region has failed with the text "1".
C2_Witness ==
    \E c \in Callers :
        /\ FinishedFree(c)
        /\ asked[c].ptr # 0
        /\ TheCall(c).status = cudaErrorInvalidValue
        /\ outcome[c].what = <<FreePrefix, "1">>

\* ------------------------------------------------------------------ C6
\* C6: an Allocate whose size exceeds the capacity still available when the
\* runtime is asked fails with AllocationError carrying a non-zero status,
\* and returns no handle.
C6_OverCapacityFails ==
    \A c \in Callers : (FinishedAlloc(c) /\ ~TheCall(c).fits) =>
        /\ ErrorKind(outcome[c]) = "AllocationError"
        /\ CarriedStatus(outcome[c]) # 0
        /\ "value" \notin DOMAIN outcome[c]

\* With a working runtime and valid flags, a request larger than what the
\* live regions leave has been refused with cudaErrorMemoryAllocation.
C6_Witness ==
    \E c \in Callers :
        /\ FinishedAlloc(c)
        /\ initStatus = cudaSuccess
        /\ asked[c].flags = 0
        /\ asked[c].size <= Capacity
        /\ Live # {}
        /\ ~TheCall(c).fits
        /\ outcome[c].what = <<AllocPrefix, "2">>

\* ------------------------------------------------------------------ C9
\* C9: every call of Allocate makes exactly one hostAlloc call and every
\* call of Release exactly one hostFree call, whether it succeeds or fails,
\* with the caller's arguments, and what that one call reported is what the
\* caller is given.
C9_OneRuntimeCallPerCall ==
    \A c \in Callers :
        /\ Len(rtlog[c]) <= 1
        /\ pc[c] \in {"alloc_9", "free_17"} => Len(rtlog[c]) = 1
        /\ outcome[c].op # "none" =>
            /\ Len(rtlog[c]) = 1
            /\ FinishedAlloc(c) =>
                  /\ rtlog[c][1].fn = "cudaHostAlloc"
                  /\ rtlog[c][1].size = asked[c].size
            /\ FinishedFree(c) => rtlog[c][1].fn = "cudaFreeHost"
            /\ Thrown(outcome[c]) <=> rtlog[c][1].status # cudaSuccess
            /\ Thrown(outcome[c]) => CarriedStatus(outcome[c]) = rtlog[c][1].status

\* An Allocate refused although its size fitted (a retry could have
\* succeeded) has finished after its one call.
C9_Witness ==
    \E c \in Callers :
        /\ FinishedAlloc(c)
        /\ Thrown(outcome[c])
        /\ rtlog[c][1].fits
        /\ rtlog[c][1].status = cudaErrorMemoryAllocation
        /\ Len(rtlog[c]) = 1

\* ------------------------------------------------------------------ C4
\* C4 as stated: a Release of a handle that a successful Allocate returned
\* and a successful Release then released, the runtime not having handed
\* the handle out again, fails with ReleaseError.
C4_SecondReleaseFails ==
    \A c \in Callers :
        (FinishedFree(c) /\ TheCall(c).was = "released") =>
            ErrorKind(outcome[c]) = "ReleaseError"

\* C4 as amended: the same, for a non-zero handle.
C4_SecondReleaseOfRegionFails ==
    \A c \in Callers :
        (FinishedFree(c) /\ TheCall(c).was = "released" /\ asked[c].ptr # 0) =>
            ErrorKind(outcome[c]) = "ReleaseError"

\* A second Release of a released non-zero handle has failed with "1".
C4_Witness ==
    \E c \in Callers :
        /\ FinishedFree(c)
        /\ asked[c].ptr # 0
        /\ asked[c].ptr = watched
        /\ TheCall(c).was = "released"
        /\ outcome[c].what = <<FreePrefix, "1">>

\* ------------------------------------------------------------------ C5
\* C5 as stated: a finished Release(0) has failed with ReleaseError.
C5_ReleaseOfZeroFails ==
    \A c \in Callers :
        (FinishedFree(c) /\ asked[c].ptr = 0) =>
            ErrorKind(outcome[c]) = "ReleaseError"

\* C5 as amended: Release(0) hands the null pointer to hostFree, once, and
\* fails with ReleaseError exactly when hostFree reports a non-success
\* status for it; the gateway itself never rejects 0.
C5_ReleaseOfZeroIsTheRuntimesCall ==
    \A c \in Callers :
        (FinishedFree(c) /\ asked[c].ptr = 0) =>
            /\ Len(rtlog[c]) = 1
            /\ rtlog[c][1].fn = "cudaFreeHost"
            /\ rtlog[c][1].ptr = nullptr
            /\ (ErrorKind(outcome[c]) = "ReleaseError")
                   <=> (rtlog[c][1].status # cudaSuccess)
            /\ rtlog[c][1].status = cudaSuccess => Returned(outcome[c])

\* A Release(0) has returned normally: the runtime took the null pointer.
C5_Witness ==
    \E c \in Callers :
        /\ FinishedFree(c)
        /\ asked[c].ptr = 0
        /\ rtlog[c][1].ptr = nullptr
        /\ rtlog[c][1].status = cudaSuccess
        /\ Returned(outcome[c])

\* ------------------------------------------------------------------ C8
\* C8: the gateway does nothing to the pool but through its one runtime
\* call: a step that enters or leaves a call, whether the call failed or
\* not, leaves the set of live regions and their lengths as they were, and
\* a caller that is not inside a call has no frame.
GatewayStepKeepsPool ==
    \A c \in Callers :
        (pc'[c] # pc[c] /\ pc[c] \notin {"alloc_8", "free_16"}) => pool' = pool

NoFrameOutsideCalls == \A c \in Callers : pc[c] = "idle" => frame[c] = Idle

C8_NoCompensation == [][GatewayStepKeepsPool /\ NoFrameOutsideCalls']_vars

\* An Allocate has failed while a region was live, and the region still is.
C8_Witness ==
    \E c \in Callers :
        /\ FinishedAlloc(c)
        /\ Thrown(outcome[c])
        /\ Live # {}

\* ----------------------------------------------------------------- C10
\* C10: the handle a successful Allocate returns is the integer value of the
\* pointer the runtime produced; Release(h) asks the runtime to free the
\* pointer whose integer value is h; and a hostFree call made by Release
\* removes at most the region at that address, leaving every other live
\* region and its length as it was.
HandleIsThePointer ==
    \A c \in Callers :
        /\ (FinishedAlloc(c) /\ Returned(outcome[c])) =>
               outcome[c].value = TheCall(c).ptr.addr
        /\ (Len(rtlog[c]) > 0 /\ asked[c].fn = "free_pinned_ptr") =>
               TheCall(c).ptr.addr = asked[c].ptr

ReleaseFreesOnlyItsRegion ==
    \A c \in Callers :
        (pc[c] = "free_16" /\ pc'[c] = "free_17") =>
            /\ \A b \in Live \ {asked[c].ptr} : b \in DOMAIN pool' /\ pool'[b] = pool[b]
            /\ DOMAIN pool' \subseteq Live
            /\ rtlog'[c][1].status = cudaSuccess => asked[c].ptr \notin DOMAIN pool'

C10_HandleRoundTrip ==
    [][HandleIsThePointer' /\ ReleaseFreesOnlyItsRegion]_vars

\* A Release has freed its region while another region stayed live.
C10_Witness ==
    \E c \in Callers :
        /\ FinishedFree(c)
        /\ Returned(outcome[c])
        /\ asked[c].ptr # 0
        /\ asked[c].ptr \notin Live
        /\ Live # {}

\* ------------------------------------------------------------------ C3
\* C3: among callers that release only what they hold, a successful
\* Allocate of a size > 0 returns a non-zero handle, and the Release of such
\* a handle by its holder, nobody else having touched it, succeeds.
C3_AllocThenReleaseSucceeds ==
    \A c \in Callers :
        /\ (FinishedAlloc(c) /\ Returned(outcome[c]) /\ asked[c].size > 0) =>
               /\ outcome[c].value # 0
               /\ asked[c].flags \in 0..cudaHostAllocFlagMask
        /\ (FinishedFree(c) /\ asked[c].ptr # 0) =>
               /\ TheCall(c).status = cudaSuccess
               /\ Returned(outcome[c])

\* The holder of a non-zero handle has released it, and Release returned.
C3_Witness ==
    \E c \in Callers :
        /\ FinishedFree(c)
        /\ asked[c].ptr # 0
        /\ TheCall(c).ptr = [addr |-> asked[c].ptr]
        /\ Returned(outcome[c])

\* ------------------------------------------------------------------ C7
\* The handles a caller answers for: those it holds, the one its Allocate
\* is about to return, and the one its Release has not yet freed.
Owned(c) ==
    held[c]
    \cup (IF pc[c] = "alloc_9" /\ frame[c].err = cudaSuccess
          THEN {frame[c].ptr.addr} ELSE {})
    \cup (IF pc[c] = "free_16" THEN {frame[c].ptr} ELSE {})

\* C7 as stated: with every handle released by its one owner exactly once,
\* under any interleaving, the live regions are exactly the handles
\* allocated and not yet released, no handle has two owners, and every
\* Release succeeds.
C7_OwnershipOfEveryHandle ==
    /\ Live = UNION {Owned(c) : c \in Callers}
    /\ \A c1, c2 \in Callers : c1 # c2 => Owned(c1) \cap Owned(c2) = {}
    /\ \A c \in Callers : FinishedFree(c) => Returned(outcome[c])

\* C7 as amended: the same for the non-zero handles, together with: the
\* length of a region does not change while it is live.
RegionHandles(c) == Owned(c) \ {0}

OwnershipOfRegions ==
    /\ Live = UNION {RegionHandles(c) : c \in Callers}
    /\ \A c1, c2 \in Callers :
           c1 # c2 => RegionHandles(c1) \cap RegionHandles(c2) = {}
    /\ \A c \in Callers :
           (FinishedFree(c) /\ asked[c].ptr # 0) => Returned(outcome[c])

LengthsFixed == \A b \in Live \cap DOMAIN pool' : pool'[b] = pool[b]

C7_OwnershipOfRegions == []OwnershipOfRegions /\ [][LengthsFixed]_vars

\* While one caller is inside a call and holds a live region, the other has
\* released a region of its own and still holds a second one.
C7_Witness ==
    \E c1, c2 \in Callers :
        /\ c1 # c2
        /\ FinishedFree(c1)
        /\ asked[c1].ptr # 0
        /\ Returned(outcome[c1])
        /\ pc[c2] # "idle"
        /\ held[c2] \cap Live # {}

====
